---- MODULE Spec2Model ----
(***************************************************************************)
(* Model of node_tree.py: class Node, class TreeStore (build_tree,         *)
(* print_tree, get_all, get_item, get_children, get_all_parents).          *)
(*                                                                         *)
(* A record (Python dict) is modelled as a function from the two keys the  *)
(* store reads, "id" and "parent", to a value or to MISSING (key absent).  *)
(* Other keys are never read by the store and are left out.  Identifiers   *)
(* are strings; the sentinel "root" is one of them, as in Python.          *)
(* Node objects live in a heap (a sequence); a node reference is its heap  *)
(* index, so two Nodes built for the same id are different objects.        *)
(***************************************************************************)
EXTENDS Naturals, Sequences, FiniteSets, TLC

MaxLen == 3
MaxWalk == MaxLen + 2

ROOT == "root"
MISSING == "MISSING"
PyNone == "None"
None == 0

Ids == {"a", "b", "c", ROOT}
Fields == Ids \cup {MISSING}
Records == [id : Fields, parent : Fields]
EmptyDict == [id |-> MISSING, parent |-> MISSING]
Inputs == UNION {[1..n -> Records] : n \in 0..MaxLen}

VARIABLES items, ts, pc, op, arg, outcome, result, current_node, parents

vars == <<items, ts, pc, op, arg, outcome, result, current_node, parents>>

----------------------------------------------------------------------------
(* Python dict, insertion ordered: a sequence of [key, val] entries.       *)

Keys(d) == {d[i].key : i \in DOMAIN d}

DictGet(d, k) ==
  IF k \in Keys(d) THEN d[CHOOSE i \in DOMAIN d : d[i].key = k].val ELSE None

(* variant: re-inserting an existing key moves it to the end                *)
DictSetMoveToEnd(d, k, v) ==
  Append(SelectSeq(d, LAMBDA e : e.key # k), [key |-> k, val |-> v])

DictSet(d, k, v) ==
  IF k \in Keys(d)
  THEN [i \in DOMAIN d |-> IF d[i].key = k THEN [key |-> k, val |-> v] ELSE d[i]]
  ELSE Append(d, [key |-> k, val |-> v])

(* item.get(f): the value, or Python None when the key is absent.          *)
ItemGet(item, f) == IF item[f] = MISSING THEN PyNone ELSE item[f]

(* Node.__init__                                                            *)
Node(item) == [item |-> item, children |-> <<>>]

(* TreeStore.__init__ before build_tree                                     *)
NewStore == [nodes |-> <<>>, nodes_map |-> <<>>, root_node |-> None,
             stdout |-> <<>>, status |-> "ok"]

(* build_tree, first loop: nodes_map[item['id']] = Node(item)               *)
RECURSIVE FirstPass(_, _, _)
FirstPass(st, items_, i) ==
  IF i > Len(items_) THEN st
  ELSE IF items_[i].id = MISSING THEN [st EXCEPT !.status = "KeyError"]
  ELSE FirstPass([st EXCEPT !.nodes = Append(@, Node(items_[i])),
                            !.nodes_map = DictSet(@, items_[i].id, Len(st.nodes) + 1)],
                 items_, i + 1)

(* variant: children.insert(0, node) instead of children.append(node)       *)
RECURSIVE SecondPassPrepend(_, _)
SecondPassPrepend(st, i) ==
  IF i > Len(st.nodes_map) THEN st
  ELSE LET node == st.nodes_map[i].val
           parent == ItemGet(st.nodes[node].item, "parent")
       IN IF parent = ROOT
          THEN SecondPassPrepend([st EXCEPT !.root_node = node], i + 1)
          ELSE LET parent_node == DictGet(st.nodes_map, parent)
               IN IF parent_node # None
                  THEN SecondPassPrepend([st EXCEPT !.nodes[parent_node].children = <<node>> \o @], i + 1)
                  ELSE SecondPassPrepend(st, i + 1)

(* variant: the loop runs over every Node ever created, superseded or not   *)
RECURSIVE SecondPassAllNodes(_, _)
SecondPassAllNodes(st, i) ==
  IF i > Len(st.nodes) THEN st
  ELSE LET node == i
           parent == ItemGet(st.nodes[node].item, "parent")
       IN IF parent = ROOT
          THEN SecondPassAllNodes([st EXCEPT !.root_node = node], i + 1)
          ELSE LET parent_node == DictGet(st.nodes_map, parent)
               IN IF parent_node # None
                  THEN SecondPassAllNodes([st EXCEPT !.nodes[parent_node].children = Append(@, node)], i + 1)
                  ELSE SecondPassAllNodes(st, i + 1)

(* variant: the root is set only while it is unset (first root wins)        *)
RECURSIVE SecondPassFirstRoot(_, _)
SecondPassFirstRoot(st, i) ==
  IF i > Len(st.nodes_map) THEN st
  ELSE LET node == st.nodes_map[i].val
           parent == ItemGet(st.nodes[node].item, "parent")
       IN IF parent = ROOT
          THEN SecondPassFirstRoot(IF st.root_node = None
                                   THEN [st EXCEPT !.root_node = node] ELSE st, i + 1)
          ELSE LET parent_node == DictGet(st.nodes_map, parent)
               IN IF parent_node # None
                  THEN SecondPassFirstRoot([st EXCEPT !.nodes[parent_node].children = Append(@, node)], i + 1)
                  ELSE SecondPassFirstRoot(st, i + 1)

(* build_tree, second loop over nodes_map.items()                           *)
RECURSIVE SecondPass(_, _)
SecondPass(st, i) ==
  IF i > Len(st.nodes_map) THEN st
  ELSE LET node == st.nodes_map[i].val
           parent == ItemGet(st.nodes[node].item, "parent")
       IN IF parent = ROOT
          THEN SecondPass([st EXCEPT !.root_node = node], i + 1)
          ELSE LET parent_node == DictGet(st.nodes_map, parent)
               IN IF parent_node # None
                  THEN SecondPass([st EXCEPT !.nodes[parent_node].children = Append(@, node)], i + 1)
                  ELSE SecondPass(st, i + 1)

(* print_tree(node, indent): the lines printed for node and its subtree     *)
RECURSIVE PrintNode(_, _, _)
RECURSIVE PrintChildren(_, _, _, _)
PrintNode(st, node, indent) ==
  <<[indent |-> indent, text |-> ItemGet(st.nodes[node].item, "id")]>>
    \o PrintChildren(st, st.nodes[node].children, 1, indent + 4)
PrintChildren(st, children, j, indent) ==
  IF j > Len(children) THEN <<>>
  ELSE PrintNode(st, children[j], indent) \o PrintChildren(st, children, j + 1, indent)

(* print_tree() as called by build_tree                                     *)
print_tree(st) ==
  IF st.nodes_map = <<>> THEN st
  ELSE IF st.root_node = None THEN [st EXCEPT !.status = "AttributeError"]
  ELSE [st EXCEPT !.stdout = @ \o PrintNode(st, st.root_node, 0)]

(* build_tree                                                               *)
build_tree(st, items_) ==
  LET s1 == FirstPass(st, items_, 1) IN
  IF s1.status # "ok" THEN s1
  ELSE LET s2 == print_tree(SecondPass(s1, 1)) IN
       IF s2.status # "ok" THEN s2
       ELSE [s2 EXCEPT !.stdout = Append(@, [indent |-> 0, text |-> ""])]

(* TreeStore(items_)                                                        *)
TreeStore(items_) == build_tree(NewStore, items_)

----------------------------------------------------------------------------
(* Queries                                                                  *)

get_all(st) == [i \in 1..Len(st.nodes_map) |-> st.nodes[st.nodes_map[i].val].item]

(* variant: the record of the first Node created for the id                 *)
get_item_first(st, id_) ==
  IF id_ \in Keys(st.nodes_map)
  THEN st.nodes[CHOOSE n \in DOMAIN st.nodes :
                  /\ st.nodes[n].item.id = id_
                  /\ \A m \in DOMAIN st.nodes : st.nodes[m].item.id = id_ => n <= m].item
  ELSE EmptyDict

get_item(st, id_) ==
  IF id_ \in Keys(st.nodes_map) THEN st.nodes[DictGet(st.nodes_map, id_)].item
  ELSE EmptyDict

get_children(st, id_) ==
  LET node == DictGet(st.nodes_map, id_) IN
  IF node # None
  THEN [j \in 1..Len(st.nodes[node].children) |-> st.nodes[st.nodes[node].children[j]].item]
  ELSE <<>>

(* get_all_parents: state of the loop, and one iteration of it              *)
WalkStart(st, id_) ==
  [current_node |-> DictGet(st.nodes_map, id_), parents |-> <<>>, outcome |-> "running"]

(* variant: the loop stops at the root-marked record without emitting it    *)
WalkStepStopsBeforeRoot(st, w) ==
  IF w.current_node = None THEN [w EXCEPT !.outcome = "return"]
  ELSE LET item == st.nodes[w.current_node].item IN
       IF item.parent = MISSING
       THEN [w EXCEPT !.parents = Append(@, item), !.outcome = "KeyError"]
       ELSE IF item.parent = ROOT
       THEN [w EXCEPT !.current_node = None]
       ELSE [w EXCEPT !.parents = Append(@, item),
                      !.current_node = DictGet(st.nodes_map, item.parent)]

WalkStep(st, w) ==
  IF w.current_node = None THEN [w EXCEPT !.outcome = "return"]
  ELSE LET item == st.nodes[w.current_node].item IN
       IF item.parent = MISSING
       THEN [w EXCEPT !.parents = Append(@, item), !.outcome = "KeyError"]
       ELSE [w EXCEPT !.parents = Append(@, item),
                      !.current_node = DictGet(st.nodes_map, item.parent)]

(* get_all_parents run for at most fuel iterations                          *)
RECURSIVE get_all_parents(_, _, _)
get_all_parents(st, w, fuel) ==
  IF w.outcome # "running" \/ fuel = 0 THEN w
  ELSE get_all_parents(st, WalkStep(st, w), fuel - 1)

----------------------------------------------------------------------------
Init ==
  /\ items \in Inputs
  /\ ts = NewStore
  /\ pc = "new"
  /\ op = "none"
  /\ arg = PyNone
  /\ outcome = "none"
  /\ result = <<>>
  /\ current_node = None
  /\ parents = <<>>

(* ts = TreeStore(items)                                                    *)
Construct ==
  /\ pc = "new"
  /\ ts' = TreeStore(items)
  /\ pc' = IF ts'.status = "ok" THEN "ready" ELSE "raised"
  /\ op' = "TreeStore"
  /\ outcome' = IF ts'.status = "ok" THEN "return" ELSE ts'.status
  /\ UNCHANGED <<items, arg, result, current_node, parents>>

GetAll ==
  /\ pc = "ready"
  /\ op' = "get_all"
  /\ arg' = PyNone
  /\ result' = get_all(ts)
  /\ outcome' = "return"
  /\ UNCHANGED <<items, ts, pc, current_node, parents>>

GetItem(id_) ==
  /\ pc = "ready"
  /\ op' = "get_item"
  /\ arg' = id_
  /\ result' = get_item(ts, id_)
  /\ outcome' = "return"
  /\ UNCHANGED <<items, ts, pc, current_node, parents>>

GetChildren(id_) ==
  /\ pc = "ready"
  /\ op' = "get_children"
  /\ arg' = id_
  /\ result' = get_children(ts, id_)
  /\ outcome' = "return"
  /\ UNCHANGED <<items, ts, pc, current_node, parents>>

(* get_all_parents(id_): entry, loop iteration, return                      *)
GetAllParentsCall(id_) ==
  /\ pc = "ready"
  /\ pc' = "walking"
  /\ op' = "get_all_parents"
  /\ arg' = id_
  /\ outcome' = "running"
  /\ result' = <<>>
  /\ current_node' = WalkStart(ts, id_).current_node
  /\ parents' = WalkStart(ts, id_).parents
  /\ UNCHANGED <<items, ts>>

GetAllParentsLoop ==
  /\ pc = "walking"
  /\ current_node # None
  /\ Len(parents) < MaxWalk
  /\ LET w == WalkStep(ts, [current_node |-> current_node, parents |-> parents,
                            outcome |-> "running"])
     IN IF w.outcome = "KeyError"
        THEN /\ pc' = "ready"
             /\ outcome' = "KeyError"
             /\ current_node' = None
             /\ parents' = <<>>
        ELSE /\ pc' = "walking"
             /\ outcome' = "running"
             /\ current_node' = w.current_node
             /\ parents' = w.parents
  /\ UNCHANGED <<items, ts, op, arg, result>>

(* return parents; the locals go out of scope                               *)
GetAllParentsReturn ==
  /\ pc = "walking"
  /\ current_node = None
  /\ pc' = "ready"
  /\ outcome' = "return"
  /\ result' = parents
  /\ parents' = <<>>
  /\ UNCHANGED <<items, ts, op, arg, current_node>>

(* TreeStore(ts.get_all()): a second store built from the first's records   *)
Rebuild ==
  /\ pc = "ready"
  /\ op' = "rebuild"
  /\ arg' = PyNone
  /\ result' = TreeStore(get_all(ts))
  /\ outcome' = IF result'.status = "ok" THEN "return" ELSE result'.status
  /\ UNCHANGED <<items, ts, pc, current_node, parents>>

Next ==
  \/ Construct
  \/ GetAll
  \/ \E id_ \in Ids : GetItem(id_)
  \/ \E id_ \in Ids : GetChildren(id_)
  \/ \E id_ \in Ids : GetAllParentsCall(id_)
  \/ GetAllParentsLoop
  \/ GetAllParentsReturn
  \/ Rebuild

Spec == Init /\ [][Next]_vars

----------------------------------------------------------------------------
(* Vocabulary of the properties, defined on the input sequence alone.       *)

WellFormed(s) == \A i \in DOMAIN s : s[i].id # MISSING /\ s[i].parent # MISSING

DistinctIds(s) == \A i, j \in DOMAIN s : s[i].id = s[j].id => i = j

InputIds(s) == {s[i].id : i \in DOMAIN s}

(* the last record of s that carries id k                                   *)
LastWithId(s, k) ==
  s[CHOOSE i \in DOMAIN s : s[i].id = k /\ \A j \in DOMAIN s : s[j].id = k => j <= i]

(* one record per distinct id, at the position the id was first seen, the   *)
(* record being the last one supplied with that id                          *)
RECURSIVE LastWins(_, _)
LastWins(s, i) ==
  IF i > Len(s) THEN <<>>
  ELSE (IF \A j \in 1..(i - 1) : s[j].id # s[i].id
        THEN <<LastWithId(s, s[i].id)>> ELSE <<>>) \o LastWins(s, i + 1)

HasParent(r, k) == r.parent = k

Returned(name) == pc = "ready" /\ op = name /\ outcome = "return"

(* C1: construction from records that all carry id and parent never fails,  *)
(* whether or not a root-marked record or the referenced parents exist.     *)
C1_ConstructionNeverFails ==
  (pc # "new" /\ WellFormed(items)) => ts.status = "ok"

(* C2: get_all_parents terminates on every store.  The walk is             *)
(* deterministic over a finite index, so it terminates exactly when it      *)
(* never emits more records than the index holds.                           *)
C2_WalkTerminates ==
  pc = "walking" => Len(parents) <= Len(ts.nodes_map)

(* C3 as stated: get_children(id) is exactly the input records whose parent *)
(* equals id, in input order, and is empty for an id not in the index.      *)
C3_ChildrenAreInputSubset ==
  Returned("get_children") =>
    result = IF arg \in InputIds(items)
             THEN SelectSeq(items, LAMBDA r : HasParent(r, arg))
             ELSE <<>>

(* C3 amended: for an id in the index other than the sentinel "root",       *)
(* get_children(id) is exactly the get_all records (one per distinct id,    *)
(* last supplied wins) whose parent equals id, in that order; it is empty   *)
(* for a leaf, for an id not in the index and for the sentinel.             *)
C3_ChildrenAreIndexSubset ==
  Returned("get_children") =>
    result = IF arg \in InputIds(items) /\ arg # ROOT
             THEN SelectSeq(LastWins(items, 1), LAMBDA r : HasParent(r, arg))
             ELSE <<>>

C3_Witness ==
  /\ Returned("get_children")
  /\ Len(items) = 3
  /\ Len(result) = 2
  /\ result[1] = items[2]
  /\ result[2] = items[3]

(* C5: get_all returns one record per distinct id, in first-seen order,     *)
(* the last record supplied for a repeated id; with distinct ids it is the  *)
(* input sequence itself.                                                    *)
C5_GetAllLastWins ==
  Returned("get_all") =>
    /\ result = LastWins(items, 1)
    /\ \A i, j \in DOMAIN result : result[i].id = result[j].id => i = j
    /\ {result[i].id : i \in DOMAIN result} = InputIds(items)
    /\ DistinctIds(items) => result = items

C5_Witness ==
  /\ Returned("get_all")
  /\ Len(items) = 3
  /\ Len(result) = 2
  /\ items[1].id = items[3].id
  /\ items[1] # items[3]
  /\ result = <<items[3], items[2]>>

(* C6: get_item returns the record supplied for an id of the input (the     *)
(* last one supplied with it), the empty mapping for any other id, and      *)
(* never raises; on the store of the empty input get_all is empty, the      *)
(* root is unset and every query gives the empty result.                    *)
C6_GetItem ==
  /\ Returned("get_item") =>
       /\ arg \in InputIds(items) =>
            /\ \E i \in DOMAIN items : result = items[i]
            /\ result = LastWithId(items, arg)
       /\ arg \notin InputIds(items) => result = EmptyDict
  /\ op = "get_item" => outcome = "return"
  /\ (pc # "new" /\ items = <<>>) =>
       /\ ts.status = "ok"
       /\ ts.root_node = None
       /\ outcome \in {"return", "running"}
       /\ pc = "walking" => current_node = None /\ parents = <<>>
       /\ op = "get_item" => result = EmptyDict
       /\ op \in {"get_all", "get_children", "get_all_parents"} => result = <<>>

C6_Witness ==
  /\ Returned("get_item")
  /\ arg \in InputIds(items)
  /\ Len(items) = 3
  /\ result = items[3]
  /\ items[1].id = arg
  /\ items[1] # result

(* The parent chain of id k, read off the input: does it reach a record     *)
(* whose parent is "root" within fuel parent steps, and after how many.     *)
RECURSIVE LeadsToRoot(_, _, _)
LeadsToRoot(s, k, fuel) ==
  /\ k \in InputIds(s)
  /\ \/ LastWithId(s, k).parent = ROOT
     \/ fuel > 0 /\ LeadsToRoot(s, LastWithId(s, k).parent, fuel - 1)

RECURSIVE Depth(_, _)
Depth(s, k) ==
  IF LastWithId(s, k).parent = ROOT THEN 0 ELSE 1 + Depth(s, LastWithId(s, k).parent)

AncestorChain(s, k, r) ==
  /\ Len(r) = Depth(s, k) + 1
  /\ r[1] = LastWithId(s, k)
  /\ \A i \in 1..(Len(r) - 1) :
       /\ r[i].parent # ROOT
       /\ r[i + 1] = LastWithId(s, r[i].parent)
  /\ r[Len(r)].parent = ROOT

(* C4 as stated: for an id whose parent chain leads to a root-marked        *)
(* record, get_all_parents returns the record of id, then each record's     *)
(* parent record, ending with the root-marked record (depth+1 records);     *)
(* for an id not in the index it returns the empty sequence.                *)
C4_AncestorChain ==
  Returned("get_all_parents") =>
    /\ LeadsToRoot(items, arg, Len(items)) => AncestorChain(items, arg, result)
    /\ arg \notin InputIds(items) => result = <<>>

(* C4 amended: the same, provided no record of the input has the sentinel   *)
(* "root" as its id; the call then returns, after depth+1 iterations.       *)
C4_AncestorChainNoSentinelId ==
  ROOT \notin InputIds(items) =>
    /\ C4_AncestorChain
    /\ (op = "get_all_parents" /\ LeadsToRoot(items, arg, Len(items))) =>
         /\ outcome # "KeyError"
         /\ pc = "walking" => Len(parents) <= Depth(items, arg) + 1
    /\ (op = "get_all_parents" /\ arg \notin InputIds(items)) =>
         /\ outcome # "KeyError"
         /\ pc = "walking" => current_node = None /\ parents = <<>>

C4_Witness ==
  /\ Returned("get_all_parents")
  /\ ROOT \notin InputIds(items)
  /\ Len(items) = 3
  /\ result = <<items[1], items[3], items[2]>>

(* C7: a record without id or without parent makes construction fail, and   *)
(* no query on a constructed store ever raises.                             *)
C7_MalformedFailsConstruction ==
  /\ (pc # "new" /\ ~WellFormed(items)) => ts.status # "ok"
  /\ op # "TreeStore" => outcome \notin {"KeyError", "AttributeError"}

(* What the four queries answer on a store, for every identifier.           *)
QueryView(st) ==
  [all |-> get_all(st),
   item |-> [k \in Ids |-> get_item(st, k)],
   children |-> [k \in Ids |-> get_children(st, k)],
   parents |-> [k \in Ids |->
                  LET w == get_all_parents(st, WalkStart(st, k), MaxWalk)
                  IN [outcome |-> w.outcome, parents |-> w.parents]]]

(* C8: a second store built from get_all() of a constructed store is        *)
(* constructed too and answers get_all, get_item, get_children and          *)
(* get_all_parents as the first does, for every identifier.                 *)
C8_RoundTrip ==
  op = "rebuild" =>
    /\ outcome = "return"
    /\ result.status = "ok"
    /\ QueryView(result) = QueryView(ts)

IndexKeys == Keys(ts.nodes_map)

IndexNodes == {ts.nodes_map[i].val : i \in DOMAIN ts.nodes_map}

(* an index record whose parent is not the sentinel and is no index key     *)
Orphan(k) ==
  /\ k \in IndexKeys
  /\ get_item(ts, k).parent # ROOT
  /\ ItemGet(get_item(ts, k), "parent") \notin IndexKeys

C8_Witness ==
  /\ op = "rebuild"
  /\ Len(items) = 3
  /\ ~DistinctIds(items)
  /\ get_all(result) # items
  /\ \E k \in Ids : Orphan(k)

(* number of places at which node n is held in a children sequence          *)
ChildSlots(n) ==
  {<<m, j>> \in IndexNodes \X (1..MaxLen + 1) :
     j <= Len(ts.nodes[m].children) /\ ts.nodes[m].children[j] = n}

RootMarked == {i \in 1..Len(LastWins(items, 1)) : LastWins(items, 1)[i].parent = ROOT}

LastRootMarked == CHOOSE i \in RootMarked : \A j \in RootMarked : j <= i

(* C9: with several root-marked records in the index, the root is the last  *)
(* of them in index order (first-seen order of ids); each earlier one stays *)
(* in the index, is not the root and is a child of no node.                 *)
C9_LastRootWins ==
  (pc # "new" /\ ts.status = "ok" /\ Cardinality(RootMarked) >= 2) =>
    LET recs == LastWins(items, 1) IN
    /\ ts.root_node = DictGet(ts.nodes_map, recs[LastRootMarked].id)
    /\ ts.nodes[ts.root_node].item = recs[LastRootMarked]
    /\ \A i \in RootMarked \ {LastRootMarked} :
         /\ get_all(ts)[i] = recs[i]
         /\ get_item(ts, recs[i].id) = recs[i]
         /\ DictGet(ts.nodes_map, recs[i].id) # ts.root_node
         /\ ChildSlots(DictGet(ts.nodes_map, recs[i].id)) = {}
         /\ \A k \in Ids : \A j \in DOMAIN get_children(ts, k) :
              get_children(ts, k)[j] # recs[i]

C9_Witness ==
  /\ pc = "ready"
  /\ Len(items) = 3
  /\ items[1].parent = ROOT /\ items[2].parent = ROOT /\ items[3].parent = ROOT
  /\ items[3].id = items[1].id
  /\ items[2].id # items[1].id
  /\ ts.nodes[ts.root_node].item = items[2]

(* C10: every Node in a children sequence is the index Node of its id; an   *)
(* index Node is held in at most one children sequence, once; a Node whose  *)
(* parent is "root" or no index key is held in none; an orphan is returned  *)
(* by get_all and get_item, by no get_children, is not reached from the     *)
(* root, and get_all_parents on it returns just its own record.             *)
C10_ChildrenAndOrphans ==
  (pc # "new" /\ ts.status = "ok") =>
    /\ \A m \in IndexNodes : \A j \in DOMAIN ts.nodes[m].children :
         LET c == ts.nodes[m].children[j]
         IN DictGet(ts.nodes_map, ts.nodes[c].item.id) = c
    /\ \A n \in IndexNodes :
         /\ Cardinality(ChildSlots(n)) <= 1
         /\ (ItemGet(ts.nodes[n].item, "parent") = ROOT
             \/ ItemGet(ts.nodes[n].item, "parent") \notin IndexKeys)
              => ChildSlots(n) = {}
    /\ \A k \in Ids : Orphan(k) =>
         /\ \E i \in DOMAIN get_all(ts) : get_all(ts)[i] = get_item(ts, k)
         /\ get_item(ts, k).id = k
         /\ \A p \in Ids : \A j \in DOMAIN get_children(ts, p) :
              get_children(ts, p)[j].id # k
         /\ \A j \in DOMAIN ts.stdout : ts.stdout[j].text # k
         /\ (op = "get_all_parents" /\ arg = k /\ pc = "ready") =>
              outcome = "return" /\ result = <<get_item(ts, k)>>

====
